---- MODULE Spec2Model ----
(***************************************************************************)
(* A model of climate_toolbox/climate_toolbox.py.                          *)
(*                                                                         *)
(*   Spec         _fill_holes_xr driving iterative_fill_holes over the     *)
(*                broadcast slices of a gridded dataset                    *)
(*   SpecReindex  _reindex_spatial_data_to_regions                         *)
(*   SpecAgg      _aggregate_reindexed_data_to_regions                     *)
(*                                                                         *)
(* Cell values of the grid are abstracted to what the code can tell apart: *)
(*   <<"val", t, i, j>>  a finite value < 1e10; t, i, j name the cell the  *)
(*                        value was loaded in, so that two different       *)
(*                        original values are never equal                  *)
(*   <<"nan">>            NaN                                              *)
(*   <<"inf">>            +inf or -inf                                     *)
(*   <<"big">>            a finite value >= 1e10 (the sentinel range)      *)
(*   <<"interp">>         a finite value estimated by scipy's griddata     *)
(* Coordinates are the test fixtures' (np.arange with step 2), in units of *)
(* 1/8 degree, ascending. The dims of a slice are (lat, lon), the          *)
(* interpolation method is the default, 'linear'. scipy's label and        *)
(* griddata are modelled by their documented behaviour. Weights and field  *)
(* values of the aggregation are integers and its quotients exact.         *)
(***************************************************************************)
EXTENDS Integers, Sequences, FiniteSets, TLC

\* Largest number of latitude / longitude positions of a grid.
MaxLat == 4
MaxLon == 3
\* Largest number of cells of a dataset that are missing (NaN, inf or sentinel)
\* when it is loaded.
MaxMissing == 3
\* max_attempts = 10 in iterative_fill_holes.
DefaultMaxAttempts == 10

\* Largest number of rows of the weights table.
MaxPoints == 2

\* The coordinate values of the broadcast dimension ('time').
Times == {0, 1}

VARIABLES
    nlat,          \* len(ds.coords['lat'])
    nlon,          \* len(ds.coords['lon'])
    vals,          \* ds[varname].values: [Times -> [Cells -> value]]
    pc,            \* position in _fill_holes_xr / iterative_fill_holes
    t,             \* the broadcast index of the for loop of _fill_holes_xr
    attempts,      \* iterative_fill_holes: attempts
    max_attempts,  \* iterative_fill_holes: max_attempts
    warned,        \* slices for which warnings.warn was called
    last,          \* what the last loop iteration computed (observation)
    touched,       \* per slice, the cells ever extracted for interpolation
    mask0,         \* per slice, the cells missing after the normalisation
    weights,       \* the weights DataFrame: a sequence of rows (reshape_index)
    reindexed,     \* what _reindex_spatial_data_to_regions returned
    points,        \* the point-indexed ds given to the aggregation
    weighted       \* what _aggregate_reindexed_data_to_regions returned

fillVars == <<t, attempts, max_attempts, warned, last, touched, mask0>>
tableVars == <<weights, reindexed, points, weighted>>
vars == <<nlat, nlon, vals, pc, fillVars, tableVars>>

----------------------------------------------------------------------------
\* Values

NaN == <<"nan">>
Inf == <<"inf">>
Big == <<"big">>
Interp == <<"interp">>
Orig(tt, c) == <<"val", tt, c[1], c[2]>>

\* np.isnan / DataArray.isnull
IsNull(x) == x[1] = "nan"
\* np.isinf
IsInf(x) == x[1] = "inf"
\* x < 1e10 (False for NaN, +inf and the sentinel range; -inf is removed by
\* the isinf test before)
Below1e10(x) == x[1] \in {"val", "interp"}
\* np.ma.masked_invalid(...).mask: NaN or inf
MaskedInvalid(x) == x[1] \in {"nan", "inf"}

Max2(a, b) == IF a >= b THEN a ELSE b
Min2(a, b) == IF a <= b THEN a ELSE b
SetMin(S) == CHOOSE x \in S : \A y \in S : x <= y
SetMax(S) == CHOOSE x \in S : \A y \in S : x >= y

\* The grid: cell <<i, j>> is latitude index i, longitude index j
\* (da.values[i, j] with dims (lat, lon)).
Lats == 0 .. (nlat - 1)
Lons == 0 .. (nlon - 1)
Cells == Lats \X Lons

\* np.arange(-89.875, 90, 2) and np.arange(0.125, 360.0, 2), in 1/8 degree
LatCoord(i) == 16 * i - 719
LonCoord(j) == 16 * j + 1

----------------------------------------------------------------------------
\* _fill_holes_xr: the normalisation

NoPoints == [temperature |-> << >>, weight |-> << >>, aggwt |-> "", agglev |-> << >>]

\* ds[varname].where(~np.isinf(ds[varname])).where(ds[varname] < 1e10)
NormalizeValue(x) == IF IsInf(x) \/ ~Below1e10(x) THEN NaN ELSE x

\* ds[varname].values.__getitem__(slicer) / ds[varname][slicer_dict]
SliceOf(v, tt) == v[tt]

\* np.isnan(sliced).any() / da.isnull().any()
AnyNull(s) == \E c \in Cells : IsNull(s[c])

NullCells(s) == {c \in Cells : IsNull(s[c])}

----------------------------------------------------------------------------
\* iterative_fill_holes: patches (scipy.ndimage.label, 4-connectivity)

Abs(x) == IF x < 0 THEN -x ELSE x
Adjacent(c, d) == Abs(c[1] - d[1]) + Abs(c[2] - d[2]) = 1

RECURSIVE Flood(_, _)
Flood(S, M) ==
    LET N == S \cup {d \in M : \E s \in S : Adjacent(s, d)}
    IN  IF N = S THEN S ELSE Flood(N, M)

PatchSet(M) == {Flood({c}, M) : c \in M}

\* raster (C) order of the cells
Key(c) == c[1] * nlon + c[2]
FirstKey(P) == SetMin({Key(c) : c \in P})

\* label(mp): 0 for the background (mp = 0), and 1 .. n_ptch for the patches,
\* numbered in raster order of their first cell
Label(M) ==
    LET PS == PatchSet(M)
        num(P) == 1 + Cardinality({Q \in PS : FirstKey(Q) < FirstKey(P)})
    IN  [c \in Cells |-> IF c \in M THEN num(Flood({c}, M)) ELSE 0]

\* range(n_ptch), the population of np.random.choice
PatchChoices(n_ptch) == 0 .. (n_ptch - 1)

\* ptch == ipatch
Selected(ptch, ipatch) == {c \in Cells : ptch[c] = ipatch}

----------------------------------------------------------------------------
\* iterative_fill_holes: the index window

\* Python's slice(a, b) over an axis: a .. b - 1
PySlice(a, b) == a .. (b - 1)

\* da.isnull().isel(lat=i, lon=slice(lo, hi)).any()
RowAnyNull(s, i, lo, hi) == \E j \in PySlice(lo, hi) : IsNull(s[<<i, j>>])
\* da.isnull().isel(lat=slice(lo, hi), lon=j).any()
ColAnyNull(s, j, lo, hi) == \E i \in PySlice(lo, hi) : IsNull(s[<<i, j>>])

RECURSIVE GrowMinLat(_, _, _, _)
GrowMinLat(s, imin_lat, imin_lon, imax_lon) ==
    IF RowAnyNull(s, imin_lat, imin_lon, imax_lon)
    THEN LET n == Max2(imin_lat - 1, 0)
         IN  IF n = 0 THEN n ELSE GrowMinLat(s, n, imin_lon, imax_lon)
    ELSE imin_lat

RECURSIVE GrowMaxLat(_, _, _, _)
GrowMaxLat(s, imax_lat, imin_lon, imax_lon) ==
    IF RowAnyNull(s, imax_lat, imin_lon, imax_lon)
    THEN LET n == Min2(imax_lat + 1, nlat - 1)
         IN  IF n = nlat - 1 THEN n ELSE GrowMaxLat(s, n, imin_lon, imax_lon)
    ELSE imax_lat

RECURSIVE GrowMinLon(_, _, _, _)
GrowMinLon(s, imin_lon, imin_lat, imax_lat) ==
    IF ColAnyNull(s, imin_lon, imin_lat, imax_lat)
    THEN LET n == Max2(imin_lon - 1, 0)
         IN  IF n = 0 THEN n ELSE GrowMinLon(s, n, imin_lat, imax_lat)
    ELSE imin_lon

RECURSIVE GrowMaxLon(_, _, _, _)
GrowMaxLon(s, imax_lon, imin_lat, imax_lat) ==
    IF ColAnyNull(s, imax_lon, imin_lat, imax_lat)
    THEN LET n == Min2(imax_lon + 1, nlon - 1)
         IN  IF n = nlon - 1 THEN n ELSE GrowMaxLon(s, n, imin_lat, imax_lat)
    ELSE imax_lon

\* The bounding box of the selected cells, before the edges are grown.
BoundingBox(sel) ==
    LET ilat == {c[1] : c \in sel}
        ilon == {c[2] : c \in sel}
    IN  [imin_lat |-> SetMin(ilat), imax_lat |-> SetMax(ilat),
         imin_lon |-> SetMin(ilon), imax_lon |-> SetMax(ilon)]

\* The four while loops, in the order of the code.
GrowWindow(s, b) ==
    LET lo_lat == GrowMinLat(s, b.imin_lat, b.imin_lon, b.imax_lon)
        hi_lat == GrowMaxLat(s, b.imax_lat, b.imin_lon, b.imax_lon)
        lo_lon == GrowMinLon(s, b.imin_lon, lo_lat, hi_lat)
        hi_lon == GrowMaxLon(s, b.imax_lon, lo_lat, hi_lat)
    IN  [imin_lat |-> lo_lat, imax_lat |-> hi_lat,
         imin_lon |-> lo_lon, imax_lon |-> hi_lon]

----------------------------------------------------------------------------
\* iterative_fill_holes: extraction of the window and interpolation

\* np.meshgrid(lat, lon): two arrays of shape (len(lon), len(lat)), row r and
\* column c holding lat[c] and lon[r]
ravel_lats == [r \in Lons |-> [c \in Lats |-> LatCoord(c)]]
ravel_lons == [r \in Lons |-> [c \in Lats |-> LonCoord(r)]]

\* ravel_lats[imin_lat], ravel_lats[imax_lat], ravel_lons[imin_lon] and
\* ravel_lons[imax_lon] index the first axis (length len(lon)) of the meshgrid
\* arrays: an index past its end raises IndexError
IndexFails(b) ==
    \/ b.imin_lat \notin DOMAIN ravel_lats
    \/ b.imax_lat \notin DOMAIN ravel_lats
    \/ b.imin_lon \notin DOMAIN ravel_lons
    \/ b.imax_lon \notin DOMAIN ravel_lons

\* np.where(...) over the meshgrid arrays; each comparison broadcasts the
\* selected row (one value per column c) against the whole array. The result
\* is the set of <<inds_lon, inds_lat>> pairs.
WhereBox(b) ==
    {rc \in Lons \X Lats :
        /\ ravel_lats[rc[1]][rc[2]] >= ravel_lats[b.imin_lat][rc[2]]
        /\ ravel_lats[rc[1]][rc[2]] <= ravel_lats[b.imax_lat][rc[2]]
        /\ ravel_lons[rc[1]][rc[2]] >= ravel_lons[b.imin_lon][rc[2]]
        /\ ravel_lons[rc[1]][rc[2]] <= ravel_lons[b.imax_lon][rc[2]]}

\* var[inds_lat, inds_lon], da.values[inds_lat, inds_lon]: the cells addressed
BoxCells(inds) == {<<rc[2], rc[1]>> : rc \in inds}

\* The (lat, lon) coordinates of a cell: ravel_lats[inds_lon, inds_lat],
\* ravel_lons[inds_lon, inds_lat]
PointOf(c) == <<ravel_lats[c[2]][c[1]], ravel_lons[c[2]][c[1]]>>

Cross(a, b, c) == (b[1] - a[1]) * (c[2] - a[2]) - (b[2] - a[2]) * (c[1] - a[1])
Dot(a, b, c) == (b[1] - a[1]) * (c[1] - a[1]) + (b[2] - a[2]) * (c[2] - a[2])

\* scipy.interpolate.griddata(method='linear') triangulates the known points
\* (Qhull) and raises when they do not hold three points that are not on one
\* line (none, one or two points, or all collinear).
GriddataFails(P) ==
    \/ P = {}
    \/ LET a == CHOOSE x \in P : TRUE
       IN  ~ \E b \in P, c \in P : Cross(a, b, c) # 0

\* p is outside the convex hull of P: a line through p and a point q of P has
\* all of P on one side, and the points of P on the line on q's side of p.
OutsideHull(p, P) ==
    \E q \in P, sgn \in {1, -1} :
        \A k \in P :
            LET cr == sgn * Cross(p, q, k)
            IN  cr > 0 \/ (cr = 0 /\ Dot(p, q, k) > 0)

\* griddata(points, values, xi, method='linear'): an estimate at every xi
\* inside the convex hull of points (the known points themselves included),
\* NaN (fill_value) outside it.
Griddata(P, xi) == IF xi \in P \/ ~OutsideHull(xi, P) THEN Interp ELSE NaN

\* A variant of WriteBack: xi given as (lon_box, lat_box)
WriteBackSwappedXi(s, box, P) ==
    [c \in Cells |->
        IF c \in box THEN Griddata(P, <<PointOf(c)[2], PointOf(c)[1]>>) ELSE s[c]]

\* A variant of WriteBack: the results assigned to whole columns of the slice
\* (da.values[:, lon range]) instead of the extracted cells
WriteBackColumns(s, box, P) ==
    [c \in Cells |->
        IF \E d \in box : d[1] = c[1] THEN Griddata(P, PointOf(c)) ELSE s[c]]

\* da.values[inds_lat, inds_lon] = griddata(...): the slice after the write
WriteBack(s, box, P) ==
    [c \in Cells |-> IF c \in box THEN Griddata(P, PointOf(c)) ELSE s[c]]

----------------------------------------------------------------------------
\* One pass of the while loop body of iterative_fill_holes with np.random.choice
\* returning ipatch. outcome:
\*   "empty"     min(ilat) raised ValueError (ptch == ipatch selects no cell)
\*   "index"     the meshgrid indexing raised IndexError
\*   "griddata"  griddata raised
\*   "written"   the results were written back
NoBox == [imin_lat |-> 0, imax_lat |-> 0, imin_lon |-> 0, imax_lon |-> 0]

\* attempt and budget0 are the attempt counter and the budget (max_attempts)
\* the iteration found when it reached the budget test.
NoIteration ==
    [outcome |-> "none", ipatch |-> 0, n_ptch |-> 0, before |-> {}, sel |-> {},
     box0 |-> NoBox, box |-> NoBox, ext |-> {}, slice |-> << >>,
     attempt |-> 0, budget0 |-> 0]

LoopBody(s, ipatch) ==
    LET M == {c \in Cells : MaskedInvalid(s[c])}
        ptch == Label(M)
        sel == Selected(ptch, ipatch)
        base == [NoIteration EXCEPT !.ipatch = ipatch,
                                    !.n_ptch = Cardinality(PatchSet(M)),
                                    !.before = M, !.sel = sel, !.slice = s]
    IN  IF sel = {}
        THEN [base EXCEPT !.outcome = "empty"]
        ELSE LET b0 == BoundingBox(sel)
                 b == GrowWindow(s, b0)
                 grown == [base EXCEPT !.box0 = b0, !.box = b]
             IN  IF IndexFails(b)
                 THEN [grown EXCEPT !.outcome = "index"]
                 ELSE LET box == BoxCells(WhereBox(b))
                          P == {PointOf(c) : c \in {d \in box : ~MaskedInvalid(s[d])}}
                      IN  IF GriddataFails(P)
                          THEN [grown EXCEPT !.outcome = "griddata", !.ext = box]
                          ELSE [grown EXCEPT !.outcome = "written", !.ext = box,
                                             !.slice = WriteBack(s, box, P)]

----------------------------------------------------------------------------
\* The dataset as loaded: every cell holds its own value, but for at most
\* MaxMissing cells, which hold NaN, an infinity or a sentinel (which of the
\* three is fixed by the cell's position, so that every dataset with two or
\* more missing cells mixes them).  One more dataset per grid has a
\* checkerboard of missing cells in its first slice: the slice with the most
\* patches the grid can hold.
RawMissing(tt, c) ==
    LET k == (tt + c[1] + c[2]) % 3
    IN  IF k = 0 THEN NaN ELSE IF k = 1 THEN Inf ELSE Big

Checkerboard(cells) ==
    {<<SetMin(Times), c>> : c \in {d \in cells : (d[1] + d[2]) % 2 = 0}}

Datasets(la, lo) ==
    LET cells == (0 .. (la - 1)) \X (0 .. (lo - 1))
        all == Times \X cells
    IN  {[tt \in Times |-> [c \in cells |->
            IF <<tt, c>> \in H THEN RawMissing(tt, c) ELSE Orig(tt, c)]] :
         H \in {h \in SUBSET all : Cardinality(h) <= MaxMissing}
               \cup {Checkerboard(cells)}}

Init ==
    /\ nlat \in 1 .. MaxLat
    /\ nlon \in 1 .. MaxLon
    /\ vals \in Datasets(nlat, nlon)
    /\ pc = "normalize"
    /\ t = 0
    /\ attempts = 0
    /\ max_attempts = DefaultMaxAttempts
    /\ warned = {}
    /\ last = NoIteration
    /\ touched = [tt \in Times |-> {}]
    /\ mask0 = [tt \in Times |-> {}]
    /\ weights = << >>
    /\ reindexed = << >>
    /\ points = NoPoints
    /\ weighted = << >>

\* ds[varname] = ds[varname].where(~np.isinf(ds[varname])).where(ds[varname] < 1e10)
Normalize ==
    /\ pc = "normalize"
    /\ vals' = [tt \in Times |-> [c \in Cells |-> NormalizeValue(vals[tt][c])]]
    /\ mask0' = [tt \in Times |-> {c \in Cells : IsNull(vals'[tt][c])}]
    /\ pc' = "slices"
    /\ t' = SetMin(Times)
    /\ UNCHANGED <<nlat, nlon, attempts, max_attempts, warned, last, touched>>
    /\ UNCHANGED tableVars

\* if not np.isnan(sliced).any(): continue
SkipSlice ==
    /\ pc = "slices"
    /\ t \in Times
    /\ ~AnyNull(SliceOf(vals, t))
    /\ t' = t + 1
    /\ UNCHANGED <<nlat, nlon, vals, pc, attempts, max_attempts, warned, last, touched,
                   mask0>>
    /\ UNCHANGED tableVars

\* iterative_fill_holes(da=ds[varname][slicer_dict], ...): attempts = 0,
\* max_attempts = 10
EnterFill ==
    /\ pc = "slices"
    /\ t \in Times
    /\ AnyNull(SliceOf(vals, t))
    /\ pc' = "loop"
    /\ attempts' = 0
    /\ max_attempts' = DefaultMaxAttempts
    /\ last' = NoIteration
    /\ UNCHANGED <<nlat, nlon, vals, t, warned, touched, mask0>>
    /\ UNCHANGED tableVars

\* if n_ptch * 2 > max_attempts: max_attempts = n_ptch * 2
RaiseBudgetAlways(n_ptch, budget) == n_ptch * 2

RaiseBudget(n_ptch, budget) ==
    IF n_ptch * 2 > budget THEN n_ptch * 2 ELSE budget

\* while da.isnull().any(): attempts += 1; attempts <= max_attempts; the body
FillIteration ==
    /\ pc = "loop"
    /\ AnyNull(SliceOf(vals, t))
    /\ attempts + 1 <= max_attempts
    /\ attempts' = attempts + 1
    /\ LET s == SliceOf(vals, t)
           n_ptch == Cardinality(PatchSet({c \in Cells : MaskedInvalid(s[c])}))
       IN  /\ max_attempts' = RaiseBudget(n_ptch, max_attempts)
           /\ \E ipatch \in PatchChoices(n_ptch) :
                LET r == LoopBody(s, ipatch)
                IN  /\ last' = [r EXCEPT !.attempt = attempts + 1,
                                          !.budget0 = max_attempts]
                    /\ vals' = [vals EXCEPT ![t] = r.slice]
                    /\ touched' = IF r.outcome \in {"griddata", "written"}
                                  THEN [touched EXCEPT ![t] = @ \cup r.ext]
                                  ELSE touched
                    /\ pc' = IF r.outcome = "written" THEN "loop" ELSE "error"
    /\ UNCHANGED <<nlat, nlon, t, warned, mask0>>
    /\ UNCHANGED tableVars

\* attempts > max_attempts: warnings.warn(...); break
BudgetExceeded ==
    /\ pc = "loop"
    /\ AnyNull(SliceOf(vals, t))
    /\ attempts + 1 > max_attempts
    /\ attempts' = attempts + 1
    /\ warned' = warned \cup {t}
    /\ pc' = "slices"
    /\ t' = t + 1
    /\ UNCHANGED <<nlat, nlon, vals, max_attempts, last, touched, mask0>>
    /\ UNCHANGED tableVars

\* the while condition is false: iterative_fill_holes returns
FillReturn ==
    /\ pc = "loop"
    /\ ~AnyNull(SliceOf(vals, t))
    /\ pc' = "slices"
    /\ t' = t + 1
    /\ UNCHANGED <<nlat, nlon, vals, attempts, max_attempts, warned, last, touched,
                   mask0>>
    /\ UNCHANGED tableVars

\* the for loop of _fill_holes_xr is exhausted
Finish ==
    /\ pc = "slices"
    /\ t \notin Times
    /\ pc' = "done"
    /\ UNCHANGED <<nlat, nlon, vals, t, attempts, max_attempts, warned, last, touched,
                   mask0>>
    /\ UNCHANGED tableVars

Next ==
    \/ Normalize
    \/ SkipSlice
    \/ EnterFill
    \/ FillIteration
    \/ BudgetExceeded
    \/ FillReturn
    \/ Finish

Spec == Init /\ [][Next]_vars

----------------------------------------------------------------------------
\* Floating-point values of the weights table and of the point-indexed field:
\* <<"nan">> or <<"num", n>>; a quotient is <<"nan">> (0/0), <<"inf", sign>>
\* (x/0) or the exact ratio <<"ratio", n, d>> in lowest terms, d > 0.

FNaN == <<"nan">>
F(n) == <<"num", n>>
IsNaNf(x) == x[1] = "nan"

\* x * y
FMul(x, y) == IF IsNaNf(x) \/ IsNaNf(y) THEN FNaN ELSE F(x[2] * y[2])
\* x > 0 (False for NaN)
FPositive(x) == ~IsNaNf(x) /\ x[2] > 0

RECURSIVE GCD(_, _)
GCD(a, b) == IF b = 0 THEN a ELSE GCD(b, a % b)

\* n / d for two finite sums
FDiv(n, d) ==
    IF d = 0
    THEN IF n = 0 THEN FNaN ELSE <<"inf", IF n > 0 THEN 1 ELSE -1>>
    ELSE LET sn == IF d < 0 THEN -n ELSE n
             sd == Abs(d)
             g == GCD(Abs(sn), sd)
         IN  <<"ratio", sn \div g, sd \div g>>

\* .sum(dim='reshape_index') of a group (skipna: NaN terms are left out; the
\* sum of no term is 0)
RECURSIVE SumSkipna(_, _)
SumSkipna(x, I) ==
    IF I = {} THEN 0
    ELSE LET i == CHOOSE k \in I : TRUE
         IN  (IF IsNaNf(x[i]) THEN 0 ELSE x[i][2]) + SumSkipna(x, I \ {i})

----------------------------------------------------------------------------
\* _reindex_spatial_data_to_regions(ds, df)

\* The positions of a label in the lat / lon index of ds (exact match)
LatIndex(x) == {i \in Lats : LatCoord(i) = x}
LonIndex(x) == {j \in Lons : LonCoord(j) = x}

\* A variant of SelPoints: orthogonal indexing (ds.sel with plain arrays), which
\* returns the outer product of the lat and lon labels
SelOrthogonal(v, df) ==
    IF \E i \in 1 .. Len(df) : LatIndex(df[i].lat) = {} \/ LonIndex(df[i].lon) = {}
    THEN [ok |-> FALSE, data |-> << >>]
    ELSE [ok |-> TRUE,
          data |-> [i \in 1 .. Len(df) |-> [j \in 1 .. Len(df) |->
                      [tt \in Times |->
                         v[tt][<<CHOOSE a \in LatIndex(df[i].lat) : TRUE,
                                 CHOOSE b \in LonIndex(df[j].lon) : TRUE>>]]]]]

\* ds.sel(lon=lon_indexer, lat=lat_indexer) with both indexers along
\* 'reshape_index' (ds.sel_points before xarray 0.10): point i is the cell
\* labelled (df.lat[i], df.lon[i]), for every time; a label that is not in
\* the index raises KeyError
SelPoints(v, df) ==
    IF \E i \in 1 .. Len(df) : LatIndex(df[i].lat) = {} \/ LonIndex(df[i].lon) = {}
    THEN [ok |-> FALSE, data |-> << >>]
    ELSE [ok |-> TRUE,
          data |-> [i \in 1 .. Len(df) |->
                      [tt \in Times |->
                         v[tt][<<CHOOSE a \in LatIndex(df[i].lat) : TRUE,
                                 CHOOSE b \in LonIndex(df[i].lon) : TRUE>>]]]]

\* The rows of a weights table over a la x lo grid: lon and lat are labels of
\* the grid, or the label one step past its end (not on the grid)
ReindexTables(la, lo) ==
    LET row == [lon : {LonCoord(j) : j \in 0 .. lo}, lat : {LatCoord(i) : i \in 0 .. la},
                ISO : {1}, popwt : {F(1)}, areawt : {F(1)}]
    IN  UNION {[1 .. n -> row] : n \in 1 .. MaxPoints}

InitReindex ==
    /\ nlat \in 1 .. MaxLat
    /\ nlon \in 1 .. MaxLon
    /\ vals = [tt \in Times |-> [c \in Cells |-> Orig(tt, c)]]
    /\ weights \in ReindexTables(nlat, nlon)
    /\ pc = "reindex"
    /\ t = 0
    /\ attempts = 0
    /\ max_attempts = DefaultMaxAttempts
    /\ warned = {}
    /\ last = NoIteration
    /\ touched = [tt \in Times |-> {}]
    /\ mask0 = [tt \in Times |-> {}]
    /\ reindexed = << >>
    /\ points = NoPoints
    /\ weighted = << >>

ReindexCall ==
    /\ pc = "reindex"
    /\ LET r == SelPoints(vals, weights)
       IN  /\ reindexed' = r.data
           /\ pc' = IF r.ok THEN "reindexed" ELSE "keyerror"
    /\ UNCHANGED <<nlat, nlon, vals, fillVars, weights, points, weighted>>

NextReindex == ReindexCall

SpecReindex == InitReindex /\ [][NextReindex]_vars

----------------------------------------------------------------------------
\* _aggregate_reindexed_data_to_regions(ds, variable, aggwt, agglev, weights,
\*                                      backup_aggwt='areawt')

\* A variant of SubstituteWeight: where(ds[aggwt] >= 0), which keeps a zero
\* weight
SubstituteWeightNonNegative(w, backup) ==
    LET kept == IF ~IsNaNf(w) /\ w[2] >= 0 THEN w ELSE FNaN
    IN  IF IsNaNf(kept) THEN backup ELSE kept

\* ds[aggwt].where(ds[aggwt] > 0).fillna(weights[backup_aggwt].values), one
\* point: w is the point's aggwt weight, backup its backup weight
SubstituteWeight(w, backup) ==
    LET kept == IF FPositive(w) THEN w ELSE FNaN
    IN  IF IsNaNf(kept) THEN backup ELSE kept

\* the groups of .groupby(agglev): the points of each region id
Group(agglev, g) == {i \in DOMAIN agglev : agglev[i] = g}

\* A variant of WeightedSum: the field summed without its weights
UnweightedSum(temperature, w, I, tt) ==
    SumSkipna([i \in I |-> temperature[i][tt]], I)

\* (ds[variable] * ds[aggwt]).groupby(agglev).sum(dim='reshape_index'), one
\* region and time
WeightedSum(temperature, w, I, tt) ==
    SumSkipna([i \in I |-> FMul(temperature[i][tt], w[i])], I)

\* ds[aggwt].groupby(agglev).sum(dim='reshape_index'), one region
WeightSum(w, I) == SumSkipna(w, I)

Aggregate(temperature, table, aggwt, backup_aggwt) ==
    LET agglev == [i \in 1 .. Len(table) |-> table[i].ISO]
        w == [i \in 1 .. Len(table) |->
                SubstituteWeight(table[i][aggwt], table[i][backup_aggwt])]
    IN  [ds |-> [temperature |-> temperature, weight |-> w, aggwt |-> aggwt,
                 agglev |-> agglev],
         weighted |->
            [g \in {agglev[i] : i \in 1 .. Len(table)} |->
               [tt \in Times |->
                  FDiv(WeightedSum(temperature, w, Group(agglev, g), tt),
                       WeightSum(w, Group(agglev, g)))]]]

\* The field value of point i at time tt when it is not missing
PointTemp(i, tt) == 3 * i + 5 * tt + 1

\* The weights tables of the aggregation: a region id, a primary weight
\* (popwt) and a backup weight (areawt) per row
AggTables ==
    LET row == [lon : {LonCoord(0)}, lat : {LatCoord(0)}, ISO : {1, 2},
                popwt : {FNaN, F(0), F(1), F(2)}, areawt : {FNaN, F(1), F(2)}]
    IN  UNION {[1 .. n -> row] : n \in 1 .. MaxPoints}

\* The point-indexed fields over n points: at the first time a point's value
\* may be missing
AggFields(n) ==
    {[i \in 1 .. n |-> [tt \in Times |->
        IF tt = SetMin(Times) /\ i \in H THEN FNaN ELSE F(PointTemp(i, tt))]] :
     H \in SUBSET (1 .. n)}

InitAgg ==
    /\ nlat = 1
    /\ nlon = 1
    /\ vals = [tt \in Times |-> [c \in Cells |-> Orig(tt, c)]]
    /\ weights \in AggTables
    /\ points \in {[NoPoints EXCEPT !.temperature = f] : f \in AggFields(Len(weights))}
    /\ pc = "aggregate"
    /\ t = 0
    /\ attempts = 0
    /\ max_attempts = DefaultMaxAttempts
    /\ warned = {}
    /\ last = NoIteration
    /\ touched = [tt \in Times |-> {}]
    /\ mask0 = [tt \in Times |-> {}]
    /\ reindexed = << >>
    /\ weighted = << >>

\* the call, with aggwt 'popwt' or 'areawt' and the default backup_aggwt
AggregateCall ==
    /\ pc = "aggregate"
    /\ \E aggwt \in {"popwt", "areawt"} :
        LET r == Aggregate(points.temperature, weights, aggwt, "areawt")
        IN  /\ points' = r.ds
            /\ weighted' = r.weighted
    /\ pc' = "aggregated"
    /\ UNCHANGED <<nlat, nlon, vals, fillVars, weights, reindexed>>

NextAgg == AggregateCall

SpecAgg == InitAgg /\ [][NextAgg]_vars

----------------------------------------------------------------------------
\* Properties of the fill (Spec)

\* The slice iterative_fill_holes is working on, or was when it raised.
InFill == pc \in {"loop", "error"}
\* iterative_fill_holes has returned for slice tt.
Returned(tt) == pc \in {"slices", "done"} /\ t > tt
\* The four while loops of the last iteration have finished.
Grown == last.outcome \in {"index", "griddata", "written"}
Valid(x) == x[1] \in {"val", "interp"}

\* One connected patch of missing cells that touches no boundary of the grid.
SinglePatchInterior(M) ==
    /\ Cardinality(PatchSet(M)) = 1
    /\ \A c \in M : /\ 0 < c[1] /\ c[1] < nlat - 1
                    /\ 0 < c[2] /\ c[2] < nlon - 1

\* C1 (fill convergence): for a slice whose missing cells are exactly one
\* connected patch that touches no grid boundary, iterative_fill_holes does
\* not raise, uses at most the default budget of 10 attempts, returns with no
\* missing cell left and emits no warning.
C1_FillConvergence ==
    \A tt \in Times :
        SinglePatchInterior(mask0[tt]) =>
            /\ (InFill /\ t = tt) => (pc # "error" /\ attempts <= DefaultMaxAttempts)
            /\ Returned(tt) => (NullCells(vals[tt]) = {} /\ tt \notin warned)

\* C2 (termination): iterative_fill_holes never aborts with an error; when it
\* has returned, the slice has no missing cell left or the warning was
\* emitted, and never both.
C2_TerminatesNormally ==
    /\ pc # "error"
    /\ \A tt \in Times :
        (Returned(tt) /\ mask0[tt] # {}) =>
            ((NullCells(vals[tt]) = {}) # (tt \in warned))

\* C3 (fill monotonicity): after every iteration of the loop the missing cells
\* of the slice are among the cells that were missing before that iteration:
\* no valid cell is made missing by the write-back.
C3_FillMonotone ==
    (InFill /\ last.outcome # "none") =>
        /\ {c \in Cells : ~Valid(vals[t][c])} \subseteq last.before
        /\ Cardinality(NullCells(vals[t])) <= Cardinality(last.before)

\* C3 witness: an iteration has written its results back, filled some of the
\* missing cells and left others missing, with known cells in its window.
C3_Witness ==
    /\ pc = "loop"
    /\ last.outcome = "written"
    /\ NullCells(vals[t]) # {}
    /\ NullCells(vals[t]) # last.before
    /\ last.ext \ last.before # {}

C8_PatchSelection ==
    last.outcome # "none" =>
        /\ last.sel \in PatchSet(last.before)
        /\ \A P \in PatchSet(last.before) :
              \E ipatch \in PatchChoices(last.n_ptch) :
                  Selected(Label(last.before), ipatch) = P

\* C9 (window perimeter): when the four growth loops have finished, each edge
\* of the index window is at the boundary of its axis or holds no missing cell
\* along the window's final extent on the other axis, ends included.
C9_WindowPerimeter ==
    Grown =>
        LET b == last.box
            rowOK(i) == \A j \in b.imin_lon .. b.imax_lon : <<i, j>> \notin last.before
            colOK(j) == \A i \in b.imin_lat .. b.imax_lat : <<i, j>> \notin last.before
        IN  /\ b.imin_lat = 0 \/ rowOK(b.imin_lat)
            /\ b.imax_lat = nlat - 1 \/ rowOK(b.imax_lat)
            /\ b.imin_lon = 0 \/ colOK(b.imin_lon)
            /\ b.imax_lon = nlon - 1 \/ colOK(b.imax_lon)

\* C10 (window extraction): the extraction never fails, and the cells
\* extracted and written back are exactly the cells whose latitude and
\* longitude lie between the coordinates at the grown indices.
C10_WindowExtraction ==
    Grown =>
        LET b == last.box
        IN  /\ last.outcome # "index"
            /\ last.ext =
                 {c \in Cells :
                    /\ LatCoord(b.imin_lat) <= LatCoord(c[1])
                    /\ LatCoord(c[1]) <= LatCoord(b.imax_lat)
                    /\ LonCoord(b.imin_lon) <= LonCoord(c[2])
                    /\ LonCoord(c[2]) <= LonCoord(b.imax_lon)}

\* The budget test of the last iteration, as the code makes it and as a test
\* against the attempts that remain once `used` of them are spent.
BudgetOf(used) ==
    IF last.n_ptch * 2 > last.budget0 - used THEN last.n_ptch * 2
    ELSE last.budget0

BudgetBounds ==
    /\ (pc = "loop" /\ last.outcome = "none") => max_attempts = DefaultMaxAttempts
    /\ last.outcome # "none" =>
          /\ last.attempt = 1 => last.budget0 = DefaultMaxAttempts
          /\ max_attempts >= last.budget0

\* C11 (budget raise), as stated: the budget starts at 10, an iteration that
\* finds twice the patch count above the budget minus the attempts already
\* used (with or without the attempt under way) sets the budget to twice the
\* patch count and any other iteration leaves it alone, and the budget is
\* never lowered.
C11_BudgetRaiseRemaining ==
    /\ BudgetBounds
    /\ last.outcome # "none" =>
          \E used \in {last.attempt - 1, last.attempt} :
              max_attempts = BudgetOf(used)

\* C11 (budget raise), amended: the budget starts at 10, an iteration that
\* finds twice the patch count above the budget itself, whatever the number
\* of attempts used, sets the budget to twice the patch count and any other
\* iteration leaves it alone, and the budget is never lowered.
C11_BudgetRaise ==
    /\ BudgetBounds
    /\ last.outcome # "none" => max_attempts = BudgetOf(0)

\* The last iteration found more than five patches and raised the budget.
C11_Witness ==
    /\ last.outcome # "none"
    /\ last.n_ptch * 2 > last.budget0
    /\ max_attempts = last.n_ptch * 2
    /\ max_attempts > DefaultMaxAttempts

----------------------------------------------------------------------------
\* Properties of the aggregation (SpecAgg)

\* The primary weight and the backup weight of point i in the call made
Primary(i) == weights[i][points.aggwt]
Backup(i) == weights[i].areawt
\* The weight the claim expects point i to count with
Effective(i) == IF FPositive(Primary(i)) THEN Primary(i) ELSE Backup(i)

\* The weighted average of region g at time tt with the weights eff
ExpectedAverage(eff, g, tt) ==
    LET I == {i \in 1 .. Len(weights) : weights[i].ISO = g}
        num == {i \in I : ~IsNaNf(points.temperature[i][tt]) /\ ~IsNaNf(eff[i])}
        den == {i \in I : ~IsNaNf(eff[i])}
    IN  FDiv(SumSkipna([i \in I |-> F(points.temperature[i][tt][2] * eff[i][2])], num),
             SumSkipna([i \in I |-> eff[i]], den))

\* C5 (fallback substitution): every point counts, in the numerator and in the
\* denominator of its region, with its primary weight when that is present
\* and > 0 and with its backup weight otherwise; moving a point's positive
\* weight from the primary to the backup column (primary zero or missing)
\* leaves the result unchanged; with no missing field value and positive
\* backup weights no region's result is missing.
C5_FallbackSubstitution ==
    pc = "aggregated" =>
        LET n == Len(weights)
            eff == [i \in 1 .. n |-> Effective(i)]
        IN  /\ points.weight = eff
            /\ \A g \in DOMAIN weighted : \A tt \in Times :
                 weighted[g][tt] = ExpectedAverage(eff, g, tt)
            /\ points.aggwt = "popwt" =>
                 \A i \in 1 .. n : \A z \in {F(0), FNaN} :
                    FPositive(weights[i].popwt) =>
                       Aggregate(points.temperature,
                                 [weights EXCEPT ![i].popwt = z,
                                                 ![i].areawt = weights[i].popwt],
                                 "popwt", "areawt").weighted = weighted
            /\ ( /\ \A i \in 1 .. n : FPositive(Backup(i))
                 /\ \A i \in 1 .. n : \A tt \in Times : ~IsNaNf(points.temperature[i][tt]) )
               => \A g \in DOMAIN weighted : \A tt \in Times : weighted[g][tt][1] = "ratio"

\* C5 witness: a region with one point on its primary weight and one, whose
\* primary weight is zero or missing, on a different backup weight.
C5_Witness ==
    /\ pc = "aggregated"
    /\ points.aggwt = "popwt"
    /\ \E i \in 1 .. Len(weights), j \in 1 .. Len(weights) :
        /\ weights[i].ISO = weights[j].ISO
        /\ weights[i].popwt \in {F(0), FNaN}
        /\ FPositive(weights[i].areawt)
        /\ FPositive(weights[j].popwt)
        /\ weights[j].popwt # weights[i].areawt
        /\ \A tt \in Times : weighted[weights[i].ISO][tt][1] = "ratio"

\* The unweighted arithmetic mean of the field over region g at time tt
Mean(g, tt) ==
    LET I == {i \in 1 .. Len(weights) : weights[i].ISO = g}
    IN  IF \E i \in I : IsNaNf(points.temperature[i][tt]) THEN FNaN
        ELSE FDiv(SumSkipna([i \in I |-> points.temperature[i][tt]], I), Cardinality(I))

SamePrimary(g) ==
    \A i \in 1 .. Len(weights), j \in 1 .. Len(weights) :
        (weights[i].ISO = g /\ weights[j].ISO = g) =>
            (~IsNaNf(Primary(i)) /\ Primary(i) = Primary(j))

\* C6 as stated (weighted-average identity): a region all of whose points
\* carry an identical value in the primary weight column gets the unweighted
\* arithmetic mean of its points' field values.
C6_MeanIdentity ==
    pc = "aggregated" =>
        \A g \in DOMAIN weighted :
            SamePrimary(g) => \A tt \in Times : weighted[g][tt] = Mean(g, tt)

\* C6 as amended: a region all of whose points carry an identical value > 0
\* in the primary weight column gets, at every time at which none of its
\* points' field values is missing, the unweighted arithmetic mean of them.
C6_MeanIdentityPositive ==
    pc = "aggregated" =>
        \A g \in DOMAIN weighted :
            (SamePrimary(g) /\ \A i \in 1 .. Len(weights) :
                                  weights[i].ISO = g => FPositive(Primary(i))) =>
                \A tt \in Times :
                    (\A i \in 1 .. Len(weights) :
                        weights[i].ISO = g => ~IsNaNf(points.temperature[i][tt])) =>
                    weighted[g][tt] = Mean(g, tt)

\* C6 witness: a region of two points with the same primary weight 2 and
\* different backup weights.
C6_Witness ==
    /\ pc = "aggregated"
    /\ points.aggwt = "popwt"
    /\ \E i \in 1 .. Len(weights), j \in 1 .. Len(weights) :
        /\ i # j
        /\ weights[i].ISO = weights[j].ISO
        /\ weights[i].popwt = F(2)
        /\ weights[j].popwt = F(2)
        /\ weights[i].areawt # weights[j].areawt
        /\ \A tt \in Times : weighted[weights[i].ISO][tt] = Mean(weights[i].ISO, tt)
        /\ \A tt \in Times : weighted[weights[i].ISO][tt][1] = "ratio"

----------------------------------------------------------------------------
\* Properties of the reindexing (SpecReindex)

OnGrid(row) == LatIndex(row.lat) # {} /\ LonIndex(row.lon) # {}

\* C7 (reindex exactness): the result has one point per row of the weights
\* table, in row order, each point holding one value per time; a row whose
\* (lon, lat) are the coordinates of a grid cell gets that cell's value at
\* every time, also when several rows name the same cell. The call succeeds
\* exactly when every row names a grid cell.
C7_ReindexExact ==
    /\ pc \in {"reindexed", "keyerror"} =>
          ((pc = "reindexed") <=> \A i \in 1 .. Len(weights) : OnGrid(weights[i]))
    /\ pc = "reindexed" =>
          /\ DOMAIN reindexed = 1 .. Len(weights)
          /\ \A i \in 1 .. Len(weights) :
                /\ DOMAIN reindexed[i] = Times
                /\ \A c \in Cells :
                     (LatCoord(c[1]) = weights[i].lat /\ LonCoord(c[2]) = weights[i].lon)
                        => \A tt \in Times : reindexed[i][tt] = vals[tt][c]

\* C7 witness: two rows name the same cell, whose lat and lon positions differ.
C7_Witness ==
    /\ pc = "reindexed"
    /\ Len(weights) >= 2
    /\ weights[1].lat = weights[2].lat
    /\ weights[1].lon = weights[2].lon
    /\ weights[1].lat = LatCoord(1)
    /\ weights[1].lon = LonCoord(0)
    /\ \A tt \in Times : reindexed[2][tt] = Orig(tt, <<1, 0>>)

====
